---- MODULE Spec2Model ----
(***************************************************************************)
(* Model of mxprops::PTree (src/mxprops/mxprops.h): one table of records   *)
(* keyed by dotted paths (propMap), one boost::mutex, and the view API     *)
(* (PTree::ConstRef / PTree::Ref) called by a finite set of threads.       *)
(*                                                                         *)
(* Strings (paths, stored values) are sequences of character codes, so     *)
(* that std::map's byte-lexicographic order, starts_with, substr and find  *)
(* are computed the way the code computes them.                            *)
(*                                                                         *)
(* Specifications: Spec, SpecDeep, SpecRace (threads making single calls,  *)
(* with and without the callers' synchronisation of the unlocked           *)
(* operations), SpecSeq (threads making sequences of calls), SpecViews and *)
(* SpecNav (calls through several views, views derived from views),        *)
(* SpecFair (calls blocking on the mutex, fairly scheduled), and SpecActor *)
(* (mxasync::Actor, src/mxasync/actor.hpp).                                *)
(***************************************************************************)
EXTENDS Integers, Sequences, FiniteSets, TLC

(***************************************************************************)
(* Characters and strings                                                  *)
(***************************************************************************)
Ascii == [dash |-> 45, dot |-> 46, zero |-> 48, lt |-> 60, gt |-> 62,
          a |-> 97, b |-> 98, d |-> 100, i |-> 105, j |-> 106, l |-> 108,
          n |-> 110,
          v |-> 118]

Dot == Ascii.dot

EmptyStr == << >>

Elems(s) == { s[j] : j \in 1..Len(s) }

\* std::string::operator< : byte-lexicographic comparison.
StrLess(s, t) ==
  \E j \in 1..(Len(t)) :
     /\ \A k \in 1..(j-1) : k <= Len(s) /\ s[k] = t[k]
     /\ \/ j = Len(s) + 1
        \/ j <= Len(s) /\ s[j] < t[j]

\* boost::starts_with(s, prefix)
StartsWith(s, prefix) ==
  /\ Len(prefix) <= Len(s)
  /\ \A j \in 1..Len(prefix) : s[j] = prefix[j]

\* std::string::substr(pos) with 0-based pos <= size
Substr(s, pos) == SubSeq(s, pos + 1, Len(s))

\* std::string::find('.') : 0-based position of the first dot, or -1 (npos)
FindDot(s) ==
  IF \E j \in 1..Len(s) : s[j] = Dot
  THEN (CHOOSE j \in 1..Len(s) : s[j] = Dot /\ \A k \in 1..(j-1) : s[k] # Dot) - 1
  ELSE -1

(***************************************************************************)
(* Path utilities of PTree                                                 *)
(***************************************************************************)
\* (variant: only the left side is tested for being empty)
joinPaths_leftOnly(p1, p2) ==
  IF p1 = EmptyStr THEN p2 ELSE p1 \o <<Dot>> \o p2

\* (variant: the separator is put in whether or not a side is empty)
joinPaths_alwaysDot(p1, p2) == p1 \o <<Dot>> \o p2

joinPaths(p1, p2) ==
  IF p1 = EmptyStr THEN p2
  ELSE IF p2 = EmptyStr THEN p1
  ELSE p1 \o <<Dot>> \o p2

splitFirst(p) ==
  LET pos == FindDot(p)
  IN  IF pos = -1 THEN p ELSE SubSeq(p, 1, pos)

(***************************************************************************)
(* The codec translator_between<std::string, TData>: TData is modelled as  *)
(* the naturals, written in decimal, plus one datum whose put_value fails. *)
(***************************************************************************)
None == [has |-> FALSE, val |-> 0]
Some(x) == [has |-> TRUE, val |-> x]

\* The datum of TData whose put_value yields no string
Unencodable == -1

RECURSIVE Decimal(_)
Decimal(n) ==
  IF n < 10 THEN << Ascii.zero + n >>
  ELSE Decimal(n \div 10) \o << Ascii.zero + (n % 10) >>

RECURSIVE ParseDecimal(_, _)
ParseDecimal(s, acc) ==
  IF s = EmptyStr THEN acc
  ELSE ParseDecimal(Tail(s), 10 * acc + (Head(s) - Ascii.zero))

IsDigit(c) == c >= Ascii.zero /\ c <= Ascii.zero + 9

\* Tr().put_value(d): optional<string>
put_value(d) ==
  IF d = Unencodable THEN [has |-> FALSE, val |-> EmptyStr] ELSE Some(Decimal(d))

\* Tr().get_value(s): optional<TData>
get_value(s) ==
  IF s # EmptyStr /\ \A j \in 1..Len(s) : IsDigit(s[j])
  THEN Some(ParseDecimal(s, 0))
  ELSE None

Invalid == << Ascii.lt, Ascii.i, Ascii.n, Ascii.v, Ascii.a, Ascii.l,
              Ascii.i, Ascii.d, Ascii.gt >>

(***************************************************************************)
(* PTree::Record                                                           *)
(***************************************************************************)
\* (variant: the constructor leaves the flag set)
NewRecord_defined == [value |-> EmptyStr, defined |-> TRUE, pathData |-> 0]

NewRecord == [value |-> EmptyStr, defined |-> FALSE, pathData |-> 0]

\* (variant: the stored string is decoded whatever the flag says)
Record_get_as_ignoresFlag(r) ==
  [opt |-> get_value(r.value), isDefined |-> r.defined]

\* (variant: *getDefined reports whether a value came out)
Record_get_as_definedIfDecoded(r) ==
  [opt |-> IF ~r.defined THEN None ELSE get_value(r.value),
   isDefined |-> r.defined /\ get_value(r.value).has]

\* Record::get_as<TData>(bool *getDefined): the optional and *getDefined
Record_get_as(r) ==
  [opt |-> IF ~r.defined THEN None ELSE get_value(r.value),
   isDefined |-> r.defined]

\* (variant: the value is stored, the flag is left as it was)
Record_set_as_keepsFlag(r, d) ==
  LET strTranslated == put_value(d)
  IN  [r EXCEPT !.value = IF strTranslated.has THEN strTranslated.val ELSE Invalid]

\* Record::set_as<TData>(d)
Record_set_as(r, d) ==
  LET strTranslated == put_value(d)
  IN  [r EXCEPT !.defined = strTranslated.has,
                !.value = IF strTranslated.has THEN strTranslated.val ELSE Invalid]

\* (variant: undefine resets the record)
Record_undefine_resets(r) == [r EXCEPT !.defined = FALSE, !.value = EmptyStr]

Record_undefine(r) == [r EXCEPT !.defined = FALSE]

(***************************************************************************)
(* The table: std::map<std::string, Record>, a function on its key set     *)
(***************************************************************************)
EmptyMap == [k \in {} |-> NewRecord]

\* propMap[path]: the map after operator[] (a missing key is inserted with
\* a default-constructed Record)
PTree_getRecord(pm, path) ==
  IF path \in DOMAIN pm THEN pm
  ELSE [k \in DOMAIN pm \cup {path} |-> IF k = path THEN NewRecord ELSE pm[k]]

\* The keys in the map's iteration order
RECURSIVE SortKeys(_)
SortKeys(S) ==
  IF S = {} THEN << >>
  ELSE LET m == CHOOSE x \in S : \A y \in S \ {x} : StrLess(x, y)
       IN  <<m>> \o SortKeys(S \ {m})

\* pm.lower_bound(key): index (1-based, Len+1 = end()) of the first key not
\* less than `key`
LowerBound(keys, key) ==
  LET notLess == { j \in 1..Len(keys) : ~StrLess(keys[j], key) }
  IN  IF notLess = {} THEN Len(keys) + 1
      ELSE CHOOSE j \in notLess : \A k \in notLess : j <= k

\* The two while loops of ConstRef::listKeysRecursive, from iterator `it`
RECURSIVE ScanAll(_, _, _, _)
ScanAll(pm, keys, it, withUndefined) ==
  IF it > Len(keys) THEN << >>
  ELSE (IF withUndefined \/ pm[keys[it]].defined THEN << keys[it] >> ELSE << >>)
       \o ScanAll(pm, keys, it + 1, withUndefined)

RECURSIVE ScanPrefix(_, _, _, _, _)
ScanPrefix(pm, keys, it, selfPath, withUndefined) ==
  IF it > Len(keys) \/ ~StartsWith(keys[it], selfPath) THEN << >>
  ELSE (IF withUndefined \/ pm[keys[it]].defined
        THEN IF selfPath = keys[it] THEN << EmptyStr >>
             ELSE << Substr(keys[it], Len(selfPath) + 1) >>
        ELSE << >>)
       \o ScanPrefix(pm, keys, it + 1, selfPath, withUndefined)

listKeysRecursive(pm, selfPath, withUndefined) ==
  LET keys == SortKeys(DOMAIN pm)
      it == LowerBound(keys, selfPath)
  IN  IF selfPath = EmptyStr
      THEN ScanAll(pm, keys, it, withUndefined)
      ELSE ScanPrefix(pm, keys, it, selfPath, withUndefined)

\* The for loop of ConstRef::listKeys over allKeys, from index i
RECURSIVE CollapseKeys(_, _, _)
CollapseKeys(allKeys, i, prevKey) ==
  IF i > Len(allKeys) THEN << >>
  ELSE LET k == splitFirst(allKeys[i])
       IN  IF k # prevKey
           THEN <<k>> \o CollapseKeys(allKeys, i + 1, k)
           ELSE CollapseKeys(allKeys, i + 1, prevKey)

listKeys(pm, selfPath, withUndefined) ==
  CollapseKeys(listKeysRecursive(pm, selfPath, withUndefined), 1, EmptyStr)

(***************************************************************************)
(* Views: PTree::ConstRef / PTree::Ref = (owner, selfPath, selfId)         *)
(***************************************************************************)
RootId == << Ascii.i >>

root(id) == [selfPath |-> EmptyStr, selfId |-> id]

getSubtreeImpl(self, path) ==
  [selfPath |-> joinPaths(self.selfPath, path), selfId |-> self.selfId]

\* ConstRef::getSubtree, reIDfy, getSubtreeForSubId
getSubtree(self, path) == getSubtreeImpl(self, path)

\* (variant: the sub-id is joined onto the path)
reIDfy_onPath(self, subId) ==
  [selfPath |-> joinPaths(self.selfPath, subId), selfId |-> self.selfId]

reIDfy(self, subId) ==
  [self EXCEPT !.selfId = joinPaths(self.selfId, subId)]

getSubtreeForSubId(self, path, subId) ==
  LET r == getSubtree(self, path)
  IN  [r EXCEPT !.selfId = joinPaths(self.selfId, subId)]

\* Ref::getSubtree, reIDfy, getSubtreeForSubId
Ref_getSubtree(self, path) == getSubtreeImpl(self, path)

Ref_reIDfy(self, subId) ==
  [self EXCEPT !.selfId = joinPaths(self.selfId, subId)]

Ref_getSubtreeForSubId(self, path, subId) ==
  LET r == Ref_getSubtree(self, path)
  IN  [r EXCEPT !.selfId = joinPaths(self.selfId, subId)]

(***************************************************************************)
(* Bounds and the inputs the callers draw from                             *)
(***************************************************************************)
Threads == {1, 2}

\* total number of view-API calls the threads start
MaxCalls == 3
\* the same, for the runs that fill the table with three records and
\* enumerate them
MaxDeepCalls == 4
\* longest full path (table key) a call may address
MaxPathLen == 3

PathA == << Ascii.a >>
PathB == << Ascii.b >>
PathADashB == << Ascii.a, Ascii.dash, Ascii.b >>
PathADotB == << Ascii.a, Dot, Ascii.b >>

\* relative paths passed to the accessors
RelPaths == { EmptyStr, PathB, PathADashB }
\* relative paths passed to getSubtree
NavPaths == { EmptyStr, PathA }
\* the views the callers hold, each derived from the root view by getSubtree
\* (deriving a view touches no table)
Views == { getSubtreeImpl(root(RootId), p) : p \in NavPaths }

\* values of TData passed to set / setValue
DataVals == { 5, 12, Unencodable }
\* the default passed to get<T>(path, defaultValue)
DefaultVal == 0
\* records passed to setRecord: Record r; r.setValue("a", pd)
RecordArgs ==
  { [value |-> << Ascii.a >>, defined |-> d, pathData |-> 1] : d \in BOOLEAN }

(***************************************************************************)
(* State                                                                   *)
(***************************************************************************)
VARIABLES
  propMap,   \* PTree::propMap
  mutex,     \* PTree::mutex: the thread that owns it, or NoThread
  pc,        \* pc[t]: where thread t is in its current call
  op,        \* op[t]: the call thread t is executing: the view it is made on
             \* (self) and its arguments
  ret,       \* ret[t]: locals / result of the call thread t is executing
  calls,     \* number of calls started so far
  lastSet,   \* history: full path -> datum of the last set/setValue on it that
             \* encoded, since the last other write to it and the last clear
  local,     \* local[t]: what a thread running a sequence of calls keeps
             \* between them: the sequence it is in, the value it read, the
             \* keys it listed, the increments it has completed
  cur,       \* a view object the callers hold
  nav,       \* the last navigation call made on cur: its arguments, cur as it
             \* was when the call was made, and the view it returned
  writer,    \* history: full path -> the view through which it was last written
  thread,    \* Actor::thread: whether it is joinable, and where the thread it
             \* stands for is in ThreadProc::operator()
  detached,  \* number of threads still in run() that Actor::thread let go of
  caller,    \* the thread using the Actor: where it is, what its last call
             \* returned
  starts,    \* number of start() calls made so far
  live       \* history: start() has been called and no join() has returned
             \* true since

vars == << propMap, mutex, pc, op, ret, calls, lastSet, local, cur, nav, writer,
           thread, detached, caller, starts, live >>

seqVars == << local >>
navVars == << cur, nav, writer >>
actorVars == << thread, detached, caller, starts, live >>
treeVars == << propMap, mutex, pc, op, ret, calls, lastSet >>

NoThread == 0

NoOp == [name |-> "none", self |-> root(RootId), path |-> EmptyStr, data |-> 0,
         rec |-> NewRecord, wu |-> FALSE]

NoRet == [kind |-> "none", opt |-> None, isDefined |-> FALSE, val |-> 0,
          keys |-> << >>, rec |-> NewRecord, propertyName |-> EmptyStr,
          msg |-> ""]

NoNav == [name |-> "none", path |-> EmptyStr, subId |-> EmptyStr,
          from |-> root(RootId), result |-> root(RootId)]

NoLocal == [prog |-> "none", v |-> 0, keys |-> << >>, incrs |-> 0]

ReadOps == { "get", "getOptional", "getNoDefault", "getValueOr", "getValue" }
ListOps == { "listKeysRecursive", "listKeys" }
WriteOps == { "set", "setValue", "undefine", "setRecord" }
LockingOps == ReadOps \cup ListOps \cup WriteOps
UnlockedOps == { "getRecord", "clear" }

\* The table key a call addresses: joinPaths(selfPath, path); getValue and
\* setValue address selfPath itself.
FullPath(t) == joinPaths(op[t].self.selfPath, op[t].path)

\* A thread is inside a table access: it holds the mutex, or it executes an
\* operation that takes no lock.
InTable(t) == pc[t] \in { "locked", "done", "unlocked" }

(***************************************************************************)
(* Two threads inside the table at once is a data race on std::map: the    *)
(* racing access may see, and leave behind, a damaged table.  The damage   *)
(* is drawn from: nothing, any one record lost, any one defined flag       *)
(* flipped.                                                                *)
(***************************************************************************)
RaceOutcomes(pm) ==
  {pm}
  \cup { [k \in DOMAIN pm \ {x} |-> pm[k]] : x \in DOMAIN pm }
  \cup { [pm EXCEPT ![x].defined = ~@] : x \in DOMAIN pm }

Seen(t) ==
  IF \E u \in Threads \ {t} : InTable(u) THEN RaceOutcomes(propMap) ELSE {propMap}

Init ==
  /\ propMap = EmptyMap
  /\ mutex = NoThread
  /\ pc = [t \in Threads |-> "idle"]
  /\ op = [t \in Threads |-> NoOp]
  /\ ret = [t \in Threads |-> NoRet]
  /\ calls = 0
  /\ lastSet = [k \in {} |-> 0]
  /\ local = [t \in Threads |-> NoLocal]
  /\ cur = root(RootId)
  /\ nav = NoNav
  /\ writer = [k \in {} |-> root(RootId)]
  /\ thread = [joinable |-> FALSE, run |-> "none"]
  /\ detached = 0
  /\ caller = [pc |-> "idle", op |-> "none", val |-> FALSE, calls |-> 0]
  /\ starts = 0
  /\ live = FALSE

(***************************************************************************)
(* Helpers on finite maps                                                  *)
(***************************************************************************)
MapPut(m, k, x) == [j \in DOMAIN m \cup {k} |-> IF j = k THEN x ELSE m[j]]
MapDel(m, k) == [j \in DOMAIN m \ {k} |-> m[j]]

(***************************************************************************)
(* Calls                                                                   *)
(***************************************************************************)
Arg(name, path, data, rec, wu) ==
  [name |-> name, self |-> root(RootId), path |-> path, data |-> data,
   rec |-> rec, wu |-> wu]

LockingCalls ==
  { Arg(n, p, 0, NewRecord, FALSE) :
      n \in {"get", "getOptional", "getNoDefault", "undefine"}, p \in RelPaths }
  \cup { Arg(n, EmptyStr, 0, NewRecord, FALSE) : n \in {"getValueOr", "getValue"} }
  \cup { Arg(n, EmptyStr, 0, NewRecord, w) : n \in ListOps, w \in BOOLEAN }
  \cup { Arg("set", p, d, NewRecord, FALSE) : p \in RelPaths, d \in DataVals }
  \cup { Arg("setValue", EmptyStr, d, NewRecord, FALSE) : d \in DataVals }
  \cup { Arg("setRecord", p, 0, r, FALSE) : p \in RelPaths, r \in RecordArgs }

UnlockedCalls ==
  { Arg("getRecord", p, 0, NewRecord, FALSE) : p \in RelPaths }
  \cup { Arg("clear", EmptyStr, 0, NewRecord, FALSE) }

\* A thread calls a locking operation: the call begins by constructing a
\* boost::unique_lock / lock_guard on owner->mutex, which blocks until the
\* mutex is free, so the call gets going when it is.
Call(t, sync, max) ==
  /\ pc[t] = "idle"
  /\ calls < max
  /\ mutex = NoThread
  /\ sync => \A u \in Threads \ {t} : pc[u] # "unlocked"
  /\ \E o \in LockingCalls, self \in Views :
       /\ Len(joinPaths(self.selfPath, o.path)) <= MaxPathLen
       /\ op' = [op EXCEPT ![t] = [o EXCEPT !.self = self]]
  /\ mutex' = t
  /\ pc' = [pc EXCEPT ![t] = "locked"]
  /\ calls' = calls + 1
  /\ UNCHANGED << propMap, ret, lastSet >>

\* A thread calls ConstRef::getRecord or PTree::clear, which take no lock.
\* With sync, the caller has made sure no other thread is inside the table.
CallUnlocked(t, sync, max) ==
  /\ pc[t] = "idle"
  /\ calls < max
  /\ sync => \A u \in Threads \ {t} : ~InTable(u)
  /\ \E o \in UnlockedCalls, self \in Views :
       /\ Len(joinPaths(self.selfPath, o.path)) <= MaxPathLen
       /\ op' = [op EXCEPT ![t] = [o EXCEPT !.self = self]]
  /\ pc' = [pc EXCEPT ![t] = "unlocked"]
  /\ calls' = calls + 1
  /\ UNCHANGED << propMap, mutex, ret, lastSet >>

\* get<T>(path, defaultValue), and getValue<T>(defaultValue) through it
Get(t) ==
  /\ pc[t] = "locked"
  /\ op[t].name \in {"get", "getValueOr"}
  /\ \E seen \in Seen(t) :
       LET pm == PTree_getRecord(seen, FullPath(t))
           v == Record_get_as(pm[FullPath(t)]).opt
       IN  /\ propMap' = pm
           /\ ret' = [ret EXCEPT ![t] =
                 [NoRet EXCEPT !.kind = "value",
                               !.val = IF v.has THEN v.val ELSE DefaultVal]]
  /\ pc' = [pc EXCEPT ![t] = "done"]
  /\ UNCHANGED << mutex, op, calls, lastSet >>

\* getOptional<T>(path, &isDefined); getValue<T>() and the no-default
\* get<T>(path) go through it
GetOptional(t) ==
  /\ pc[t] = "locked"
  /\ op[t].name \in {"getOptional", "getValue", "getNoDefault"}
  /\ \E seen \in Seen(t) :
       LET pm == PTree_getRecord(seen, FullPath(t))
           g == Record_get_as(pm[FullPath(t)])
       IN  /\ propMap' = pm
           /\ ret' = [ret EXCEPT ![t] =
                 [NoRet EXCEPT !.kind = "optional",
                               !.opt = g.opt,
                               !.isDefined = IF op[t].name = "getValue"
                                             THEN FALSE ELSE g.isDefined]]
  /\ pc' = [pc EXCEPT ![t] = "done"]
  /\ UNCHANGED << mutex, op, calls, lastSet >>

\* (variant: the enumeration looks its own selfPath up with operator[])
ListKeysRecursive_materializes(t) ==
  /\ pc[t] = "locked"
  /\ op[t].name \in ListOps
  /\ \E seen \in Seen(t) :
       /\ propMap' = PTree_getRecord(seen, op[t].self.selfPath)
       /\ ret' = [ret EXCEPT ![t] =
             [NoRet EXCEPT !.kind = "keys",
                           !.keys = listKeysRecursive(seen, op[t].self.selfPath, op[t].wu)]]
  /\ pc' = [pc EXCEPT ![t] = "done"]
  /\ UNCHANGED << mutex, op, calls, lastSet >>

\* listKeysRecursive(result, withUndefined); listKeys calls it for allKeys
ListKeysRecursive(t) ==
  /\ pc[t] = "locked"
  /\ op[t].name \in ListOps
  /\ \E seen \in Seen(t) :
       /\ propMap' = seen
       /\ ret' = [ret EXCEPT ![t] =
             [NoRet EXCEPT !.kind = "keys",
                           !.keys = listKeysRecursive(seen, op[t].self.selfPath, op[t].wu)]]
  /\ pc' = [pc EXCEPT ![t] = "done"]
  /\ UNCHANGED << mutex, op, calls, lastSet >>

\* Ref::set<T>(path, value)
Set(t) ==
  /\ pc[t] = "locked"
  /\ op[t].name = "set"
  /\ \E seen \in Seen(t) :
       LET pm == PTree_getRecord(seen, FullPath(t))
       IN  propMap' = [pm EXCEPT ![FullPath(t)] = Record_set_as(@, op[t].data)]
  /\ lastSet' = IF put_value(op[t].data).has
                THEN MapPut(lastSet, FullPath(t), op[t].data)
                ELSE MapDel(lastSet, FullPath(t))
  /\ ret' = [ret EXCEPT ![t] = [NoRet EXCEPT !.kind = "void"]]
  /\ pc' = [pc EXCEPT ![t] = "done"]
  /\ UNCHANGED << mutex, op, calls >>

\* Ref::setValue<T>(value)
SetValue(t) ==
  /\ pc[t] = "locked"
  /\ op[t].name = "setValue"
  /\ \E seen \in Seen(t) :
       LET pm == PTree_getRecord(seen, op[t].self.selfPath)
       IN  propMap' = [pm EXCEPT ![op[t].self.selfPath] = Record_set_as(@, op[t].data)]
  /\ lastSet' = IF put_value(op[t].data).has
                THEN MapPut(lastSet, op[t].self.selfPath, op[t].data)
                ELSE MapDel(lastSet, op[t].self.selfPath)
  /\ ret' = [ret EXCEPT ![t] = [NoRet EXCEPT !.kind = "void"]]
  /\ pc' = [pc EXCEPT ![t] = "done"]
  /\ UNCHANGED << mutex, op, calls >>

\* (variant: undefine reaches the records below the path as well)
Undefine_subtree(t) ==
  /\ pc[t] = "locked"
  /\ op[t].name = "undefine"
  /\ \E seen \in Seen(t) :
       LET pm == PTree_getRecord(seen, FullPath(t))
       IN  propMap' = [k \in DOMAIN pm |->
                         IF StartsWith(k, FullPath(t))
                         THEN Record_undefine(pm[k]) ELSE pm[k]]
  /\ lastSet' = MapDel(lastSet, FullPath(t))
  /\ ret' = [ret EXCEPT ![t] = [NoRet EXCEPT !.kind = "void"]]
  /\ pc' = [pc EXCEPT ![t] = "done"]
  /\ UNCHANGED << mutex, op, calls >>

\* Ref::undefine(path)
Undefine(t) ==
  /\ pc[t] = "locked"
  /\ op[t].name = "undefine"
  /\ \E seen \in Seen(t) :
       LET pm == PTree_getRecord(seen, FullPath(t))
       IN  propMap' = [pm EXCEPT ![FullPath(t)] = Record_undefine(@)]
  /\ lastSet' = MapDel(lastSet, FullPath(t))
  /\ ret' = [ret EXCEPT ![t] = [NoRet EXCEPT !.kind = "void"]]
  /\ pc' = [pc EXCEPT ![t] = "done"]
  /\ UNCHANGED << mutex, op, calls >>

\* Ref::setRecord(path, r)
SetRecord(t) ==
  /\ pc[t] = "locked"
  /\ op[t].name = "setRecord"
  /\ \E seen \in Seen(t) :
       LET pm == PTree_getRecord(seen, FullPath(t))
       IN  propMap' = [pm EXCEPT ![FullPath(t)] = op[t].rec]
  /\ lastSet' = MapDel(lastSet, FullPath(t))
  /\ ret' = [ret EXCEPT ![t] = [NoRet EXCEPT !.kind = "void"]]
  /\ pc' = [pc EXCEPT ![t] = "done"]
  /\ UNCHANGED << mutex, op, calls >>

\* (variant: the function returns and the mutex stays locked)
Unlock_leaks(t) ==
  /\ pc[t] = "done"
  /\ mutex = t
  /\ IF op[t].name \in {"getNoDefault", "listKeys"}
     THEN /\ pc' = [pc EXCEPT ![t] = "after"]
          /\ UNCHANGED << op, ret >>
     ELSE /\ pc' = [pc EXCEPT ![t] = "idle"]
          /\ op' = [op EXCEPT ![t] = NoOp]
          /\ ret' = [ret EXCEPT ![t] = NoRet]
  /\ UNCHANGED << propMap, mutex, calls, lastSet >>

\* The lock object is destroyed as the locking function returns.  The
\* no-default get and listKeys go on with their locals; every other call is
\* over.
Unlock(t) ==
  /\ pc[t] = "done"
  /\ mutex = t
  /\ mutex' = NoThread
  /\ IF op[t].name \in {"getNoDefault", "listKeys"}
     THEN /\ pc' = [pc EXCEPT ![t] = "after"]
          /\ UNCHANGED << op, ret >>
     ELSE /\ pc' = [pc EXCEPT ![t] = "idle"]
          /\ op' = [op EXCEPT ![t] = NoOp]
          /\ ret' = [ret EXCEPT ![t] = NoRet]
  /\ UNCHANGED << propMap, calls, lastSet >>

\* get<T>(path): if (!v) throw PropsError(getSelfPath() + "." + path, ...)
GetThrow(t) ==
  /\ pc[t] = "after"
  /\ op[t].name = "getNoDefault"
  /\ ~ret[t].opt.has
  /\ ret' = [ret EXCEPT ![t] =
        [@ EXCEPT !.kind = "error",
                  !.propertyName = op[t].self.selfPath \o <<Dot>> \o op[t].path,
                  !.msg = IF ret[t].isDefined THEN "Bad format "
                          ELSE "Undefined property: "]]
  /\ pc' = [pc EXCEPT ![t] = "thrown"]
  /\ UNCHANGED << propMap, mutex, op, calls, lastSet >>

\* get<T>(path): return *v
GetReturn(t) ==
  /\ pc[t] = "after"
  /\ op[t].name = "getNoDefault"
  /\ ret[t].opt.has
  /\ ret' = [ret EXCEPT ![t] = [@ EXCEPT !.kind = "value", !.val = ret[t].opt.val]]
  /\ pc' = [pc EXCEPT ![t] = "returned"]
  /\ UNCHANGED << propMap, mutex, op, calls, lastSet >>

\* listKeys: the loop over allKeys after listKeysRecursive has returned
ListKeys(t) ==
  /\ pc[t] = "after"
  /\ op[t].name = "listKeys"
  /\ ret' = [ret EXCEPT ![t] =
        [@ EXCEPT !.keys = CollapseKeys(ret[t].keys, 1, EmptyStr)]]
  /\ pc' = [pc EXCEPT ![t] = "returned"]
  /\ UNCHANGED << propMap, mutex, op, calls, lastSet >>

\* The caller takes the result (or catches the error)
Return(t) ==
  /\ pc[t] \in {"returned", "thrown"}
  /\ pc' = [pc EXCEPT ![t] = "idle"]
  /\ op' = [op EXCEPT ![t] = NoOp]
  /\ ret' = [ret EXCEPT ![t] = NoRet]
  /\ UNCHANGED << propMap, mutex, calls, lastSet >>

\* ConstRef::getRecord(path), called directly: no lock is taken
GetRecord(t) ==
  /\ pc[t] = "unlocked"
  /\ op[t].name = "getRecord"
  /\ \E seen \in Seen(t) : propMap' = PTree_getRecord(seen, FullPath(t))
  /\ pc' = [pc EXCEPT ![t] = "idle"]
  /\ op' = [op EXCEPT ![t] = NoOp]
  /\ UNCHANGED << mutex, ret, calls, lastSet >>

\* (variant: clear drops the defined records only)
Clear_keepsUndefined(t) ==
  /\ pc[t] = "unlocked"
  /\ op[t].name = "clear"
  /\ propMap' = [k \in { x \in DOMAIN propMap : ~propMap[x].defined } |-> propMap[k]]
  /\ lastSet' = [k \in {} |-> 0]
  /\ pc' = [pc EXCEPT ![t] = "idle"]
  /\ op' = [op EXCEPT ![t] = NoOp]
  /\ UNCHANGED << mutex, ret, calls >>

\* PTree::clear(): no lock is taken
Clear(t) ==
  /\ pc[t] = "unlocked"
  /\ op[t].name = "clear"
  /\ propMap' \in {EmptyMap} \cup (Seen(t) \ {propMap})
  /\ lastSet' = [k \in {} |-> 0]
  /\ pc' = [pc EXCEPT ![t] = "idle"]
  /\ op' = [op EXCEPT ![t] = NoOp]
  /\ UNCHANGED << mutex, ret, calls >>

Access(t) ==
  \/ Get(t) \/ GetOptional(t) \/ ListKeysRecursive(t)
  \/ Set(t) \/ SetValue(t) \/ Undefine(t) \/ SetRecord(t)
  \/ GetRecord(t) \/ Clear(t)

Finish(t) ==
  \/ Unlock(t) \/ GetThrow(t) \/ GetReturn(t) \/ ListKeys(t) \/ Return(t)

\* Callers that keep the unlocked operations out of every other thread's
\* table access (external synchronisation for clear and direct getRecord)
Next ==
  \E t \in Threads :
    \/ Call(t, TRUE, MaxCalls) /\ UNCHANGED << seqVars, navVars, actorVars >>
    \/ CallUnlocked(t, TRUE, MaxCalls) /\ UNCHANGED << seqVars, navVars, actorVars >>
    \/ Get(t) /\ UNCHANGED << seqVars, navVars, actorVars >>
    \/ GetOptional(t) /\ UNCHANGED << seqVars, navVars, actorVars >>
    \/ ListKeysRecursive(t) /\ UNCHANGED << seqVars, navVars, actorVars >>
    \/ Set(t) /\ UNCHANGED << seqVars, navVars, actorVars >>
    \/ SetValue(t) /\ UNCHANGED << seqVars, navVars, actorVars >>
    \/ Undefine(t) /\ UNCHANGED << seqVars, navVars, actorVars >>
    \/ SetRecord(t) /\ UNCHANGED << seqVars, navVars, actorVars >>
    \/ GetRecord(t) /\ UNCHANGED << seqVars, navVars, actorVars >>
    \/ Clear(t) /\ UNCHANGED << seqVars, navVars, actorVars >>
    \/ Unlock(t) /\ UNCHANGED << seqVars, navVars, actorVars >>
    \/ GetThrow(t) /\ UNCHANGED << seqVars, navVars, actorVars >>
    \/ GetReturn(t) /\ UNCHANGED << seqVars, navVars, actorVars >>
    \/ ListKeys(t) /\ UNCHANGED << seqVars, navVars, actorVars >>
    \/ Return(t) /\ UNCHANGED << seqVars, navVars, actorVars >>

Spec == Init /\ [][Next]_vars

\* The same callers, making one more call
NextDeep ==
  \E t \in Threads :
    \/ Call(t, TRUE, MaxDeepCalls) /\ UNCHANGED << seqVars, navVars, actorVars >>
    \/ CallUnlocked(t, TRUE, MaxDeepCalls) /\ UNCHANGED << seqVars, navVars, actorVars >>
    \/ Get(t) /\ UNCHANGED << seqVars, navVars, actorVars >>
    \/ GetOptional(t) /\ UNCHANGED << seqVars, navVars, actorVars >>
    \/ ListKeysRecursive(t) /\ UNCHANGED << seqVars, navVars, actorVars >>
    \/ Set(t) /\ UNCHANGED << seqVars, navVars, actorVars >>
    \/ SetValue(t) /\ UNCHANGED << seqVars, navVars, actorVars >>
    \/ Undefine(t) /\ UNCHANGED << seqVars, navVars, actorVars >>
    \/ SetRecord(t) /\ UNCHANGED << seqVars, navVars, actorVars >>
    \/ GetRecord(t) /\ UNCHANGED << seqVars, navVars, actorVars >>
    \/ Clear(t) /\ UNCHANGED << seqVars, navVars, actorVars >>
    \/ Unlock(t) /\ UNCHANGED << seqVars, navVars, actorVars >>
    \/ GetThrow(t) /\ UNCHANGED << seqVars, navVars, actorVars >>
    \/ GetReturn(t) /\ UNCHANGED << seqVars, navVars, actorVars >>
    \/ ListKeys(t) /\ UNCHANGED << seqVars, navVars, actorVars >>
    \/ Return(t) /\ UNCHANGED << seqVars, navVars, actorVars >>

SpecDeep == Init /\ [][NextDeep]_vars

\* Callers that call every operation of the public API at any time
NextRace ==
  \E t \in Threads :
    \/ Call(t, FALSE, MaxCalls) /\ UNCHANGED << seqVars, navVars, actorVars >>
    \/ CallUnlocked(t, FALSE, MaxCalls) /\ UNCHANGED << seqVars, navVars, actorVars >>
    \/ Get(t) /\ UNCHANGED << seqVars, navVars, actorVars >>
    \/ GetOptional(t) /\ UNCHANGED << seqVars, navVars, actorVars >>
    \/ ListKeysRecursive(t) /\ UNCHANGED << seqVars, navVars, actorVars >>
    \/ Set(t) /\ UNCHANGED << seqVars, navVars, actorVars >>
    \/ SetValue(t) /\ UNCHANGED << seqVars, navVars, actorVars >>
    \/ Undefine(t) /\ UNCHANGED << seqVars, navVars, actorVars >>
    \/ SetRecord(t) /\ UNCHANGED << seqVars, navVars, actorVars >>
    \/ GetRecord(t) /\ UNCHANGED << seqVars, navVars, actorVars >>
    \/ Clear(t) /\ UNCHANGED << seqVars, navVars, actorVars >>
    \/ Unlock(t) /\ UNCHANGED << seqVars, navVars, actorVars >>
    \/ GetThrow(t) /\ UNCHANGED << seqVars, navVars, actorVars >>
    \/ GetReturn(t) /\ UNCHANGED << seqVars, navVars, actorVars >>
    \/ ListKeys(t) /\ UNCHANGED << seqVars, navVars, actorVars >>
    \/ Return(t) /\ UNCHANGED << seqVars, navVars, actorVars >>

SpecRace == Init /\ [][NextRace]_vars

(***************************************************************************)
(* Sequences of calls made by one thread (spec, "Concurrency"): each call  *)
(* locks for itself; the thread's locals carry values from call to call    *)
(***************************************************************************)
MaxSeqCalls == 7

\* (variant: the call goes ahead without owning the mutex)
StartCall_noLock(t, o) ==
  /\ pc[t] = "idle"
  /\ calls < MaxSeqCalls
  /\ op' = [op EXCEPT ![t] = o]
  /\ pc' = [pc EXCEPT ![t] = "locked"]
  /\ calls' = calls + 1
  /\ UNCHANGED << propMap, mutex, ret, lastSet >>

\* Thread t makes the locking call o on the root view: the lock object is
\* constructed once the mutex is free
StartCall(t, o) ==
  /\ pc[t] = "idle"
  /\ calls < MaxSeqCalls
  /\ mutex = NoThread
  /\ op' = [op EXCEPT ![t] = o]
  /\ mutex' = t
  /\ pc' = [pc EXCEPT ![t] = "locked"]
  /\ calls' = calls + 1
  /\ UNCHANGED << propMap, ret, lastSet >>

\* v = R.get(p, 0)
IncrGet(t) ==
  /\ local[t].prog = "none"
  /\ StartCall(t, Arg("get", PathB, 0, NewRecord, FALSE))
  /\ local' = [local EXCEPT ![t].prog = "incrGet"]
  /\ UNCHANGED << navVars, actorVars >>

\* R.set(p, v + 1)
IncrSet(t) ==
  /\ local[t].prog = "incrRead"
  /\ StartCall(t, Arg("set", PathB, local[t].v + 1, NewRecord, FALSE))
  /\ local' = [local EXCEPT ![t].prog = "incrSet"]
  /\ UNCHANGED << navVars, actorVars >>

\* R.listKeysRecursive(keys, false)
ListThenRead(t) ==
  /\ local[t].prog = "none"
  /\ StartCall(t, Arg("listKeysRecursive", EmptyStr, 0, NewRecord, FALSE))
  /\ local' = [local EXCEPT ![t].prog = "list"]
  /\ UNCHANGED << navVars, actorVars >>

\* R.getOptional(keys[0])
ReadListed(t) ==
  /\ local[t].prog = "listed"
  /\ local[t].keys # << >>
  /\ StartCall(t, Arg("getOptional", Head(local[t].keys), 0, NewRecord, FALSE))
  /\ local' = [local EXCEPT ![t].prog = "readListed"]
  /\ UNCHANGED << navVars, actorVars >>

\* The thread drops an empty listing
DropListed(t) ==
  /\ local[t].prog = "listed"
  /\ local[t].keys = << >>
  /\ pc[t] = "idle"
  /\ local' = [local EXCEPT ![t].prog = "none"]
  /\ UNCHANGED << navVars, actorVars >>
  /\ UNCHANGED << propMap, mutex, pc, op, ret, calls, lastSet >>

\* R.undefine(p), a single call
UndefineOnce(t) ==
  /\ local[t].prog = "none"
  /\ StartCall(t, Arg("undefine", PathB, 0, NewRecord, FALSE))
  /\ local' = [local EXCEPT ![t].prog = "undefine"]
  /\ UNCHANGED << navVars, actorVars >>

\* The call returns: the lock is released and the caller keeps the result
SeqReturn(t) ==
  /\ Unlock(t)
  /\ local' = [local EXCEPT ![t] =
        CASE @.prog = "incrGet" -> [@ EXCEPT !.prog = "incrRead", !.v = ret[t].val]
          [] @.prog = "incrSet" -> [@ EXCEPT !.prog = "none", !.incrs = @ + 1]
          [] @.prog = "list" -> [@ EXCEPT !.prog = "listed", !.keys = ret[t].keys]
          [] OTHER -> [@ EXCEPT !.prog = "none"]]
  /\ UNCHANGED << navVars, actorVars >>

NextSeq ==
  \E t \in Threads :
    \/ IncrGet(t) \/ IncrSet(t) \/ ListThenRead(t) \/ ReadListed(t)
    \/ DropListed(t) \/ UndefineOnce(t) \/ SeqReturn(t)
    \/ Get(t) /\ UNCHANGED << seqVars, navVars, actorVars >>
    \/ Set(t) /\ UNCHANGED << seqVars, navVars, actorVars >>
    \/ ListKeysRecursive(t) /\ UNCHANGED << seqVars, navVars, actorVars >>
    \/ GetOptional(t) /\ UNCHANGED << seqVars, navVars, actorVars >>
    \/ Undefine(t) /\ UNCHANGED << seqVars, navVars, actorVars >>

SpecSeq == Init /\ [][NextSeq]_vars

(***************************************************************************)
(* Navigation: views derived from views, and calls made through them       *)
(***************************************************************************)
MaxNavCalls == 1
MaxViewCalls == 2
\* longest selfId a view may carry
MaxIdLen == 3

OtherId == << Ascii.j >>
\* ids passed to root(), sub-ids passed to reIDfy / getSubtreeForSubId
RootIds == { RootId, OtherId }
SubIds == { EmptyStr, OtherId }
\* relative paths passed to getSubtree / getSubtreeForSubId
SubtreePaths == { EmptyStr, PathA, PathB, PathADotB }
\* relative paths passed to the accessors called through the views
NavRelPaths == { PathB, PathADotB }

InBounds(v) == Len(v.selfPath) <= MaxPathLen /\ Len(v.selfId) <= MaxIdLen

\* The navigation call returns the view r; the table and the view the call
\* was made on are not written (the member functions are const and build
\* their result in a local)
Navigate(name, path, subId, r) ==
  /\ InBounds(r)
  /\ nav' = [name |-> name, path |-> path, subId |-> subId, from |-> cur,
             result |-> r]
  /\ UNCHANGED << propMap, mutex, pc, op, ret, calls, lastSet, cur, writer >>
  /\ UNCHANGED << seqVars, actorVars >>

NavRoot ==
  \E id \in RootIds : Navigate("root", EmptyStr, id, root(id))

NavGetSubtree ==
  \E path \in SubtreePaths :
    \/ Navigate("getSubtree", path, EmptyStr, getSubtree(cur, path))
    \/ Navigate("Ref::getSubtree", path, EmptyStr, Ref_getSubtree(cur, path))

NavReIDfy ==
  \E subId \in SubIds :
    \/ Navigate("reIDfy", EmptyStr, subId, reIDfy(cur, subId))
    \/ Navigate("Ref::reIDfy", EmptyStr, subId, Ref_reIDfy(cur, subId))

NavGetSubtreeForSubId ==
  \E path \in SubtreePaths, subId \in SubIds :
    \/ Navigate("getSubtreeForSubId", path, subId,
                getSubtreeForSubId(cur, path, subId))
    \/ Navigate("Ref::getSubtreeForSubId", path, subId,
                Ref_getSubtreeForSubId(cur, path, subId))

\* The callers go on with the view they were returned
Adopt ==
  /\ nav.name # "none"
  /\ cur' = nav.result
  /\ nav' = NoNav
  /\ UNCHANGED << propMap, mutex, pc, op, ret, calls, lastSet, writer >>
  /\ UNCHANGED << seqVars, actorVars >>

NavCalls ==
  { Arg("get", p, 0, NewRecord, FALSE) : p \in NavRelPaths }
  \cup { Arg("set", p, 12, NewRecord, FALSE) : p \in NavRelPaths }

\* A thread makes one of the locking calls cs through one of the views vs
CallOn(t, cs, vs, max) ==
  /\ pc[t] = "idle"
  /\ calls < max
  /\ mutex = NoThread
  /\ \E o \in cs, self \in vs :
       /\ Len(joinPaths(self.selfPath, o.path)) <= MaxPathLen
       /\ op' = [op EXCEPT ![t] = [o EXCEPT !.self = self]]
  /\ mutex' = t
  /\ pc' = [pc EXCEPT ![t] = "locked"]
  /\ calls' = calls + 1
  /\ UNCHANGED << propMap, ret, lastSet >>

\* A write is noted with the view it came through
NoteWriter(t) ==
  /\ writer' = IF op[t].name \in WriteOps
               THEN MapPut(writer, FullPath(t), op[t].self)
               ELSE writer
  /\ UNCHANGED << cur, nav >>
  /\ UNCHANGED << seqVars, actorVars >>

NextNav ==
  \/ NavRoot \/ NavGetSubtree \/ NavReIDfy \/ NavGetSubtreeForSubId
  \/ Adopt
  \/ \E t \in Threads :
       \/ CallOn(t, NavCalls, {cur}, MaxNavCalls) /\ UNCHANGED << seqVars, navVars, actorVars >>
       \/ Get(t) /\ UNCHANGED << seqVars, navVars, actorVars >>
       \/ Set(t) /\ UNCHANGED << seqVars, navVars, actorVars >>
       \/ Unlock(t) /\ UNCHANGED << seqVars, navVars, actorVars >>

SpecNav == Init /\ [][NextNav]_vars

\* Views the callers hold on one store: the root view, and two views of the
\* subtree "a" that differ in their ids and in how they were derived
HeldViews ==
  { root(RootId),
    getSubtree(root(RootId), PathA),
    Ref_getSubtreeForSubId(root(OtherId), PathA, OtherId) }

ViewCalls ==
  { Arg(n, p, 0, NewRecord, FALSE) :
      n \in {"get", "getOptional", "undefine"}, p \in NavRelPaths }
  \cup { Arg("set", p, d, NewRecord, FALSE) : p \in NavRelPaths, d \in {5, 12} }

NextViews ==
  \E t \in Threads :
    \/ CallOn(t, ViewCalls, HeldViews, MaxViewCalls) /\ UNCHANGED << seqVars, navVars, actorVars >>
    \/ Get(t) /\ NoteWriter(t)
    \/ GetOptional(t) /\ NoteWriter(t)
    \/ Set(t) /\ NoteWriter(t)
    \/ Undefine(t) /\ NoteWriter(t)
    \/ Unlock(t) /\ UNCHANGED << seqVars, navVars, actorVars >>

SpecViews == Init /\ [][NextViews]_vars

(***************************************************************************)
(* Threads blocking on the mutex: a call waits in the constructor of its   *)
(* lock object until the mutex is free                                     *)
(***************************************************************************)
MaxFairCalls == 2

\* one call of each locking operation of the views
FairCalls ==
  { Arg(n, PathB, 0, NewRecord, FALSE) :
      n \in {"get", "getOptional", "getNoDefault", "undefine"} }
  \cup { Arg(n, EmptyStr, 0, NewRecord, FALSE) : n \in {"getValueOr", "getValue"} }
  \cup { Arg(n, EmptyStr, 0, NewRecord, FALSE) : n \in ListOps }
  \cup { Arg("set", PathB, 12, NewRecord, FALSE), Arg("setValue", EmptyStr, 12, NewRecord, FALSE) }
  \cup { Arg("setRecord", PathB, 0, r, FALSE) : r \in RecordArgs }

\* A thread calls an operation and comes to the construction of its lock
Enter(t) ==
  /\ pc[t] = "idle"
  /\ calls < MaxFairCalls
  /\ \E o \in FairCalls : op' = [op EXCEPT ![t] = o]
  /\ pc' = [pc EXCEPT ![t] = "waiting"]
  /\ calls' = calls + 1
  /\ UNCHANGED << propMap, mutex, ret, lastSet >>

\* boost::mutex::lock() returns once the mutex is free
Acquire(t) ==
  /\ pc[t] = "waiting"
  /\ mutex = NoThread
  /\ mutex' = t
  /\ pc' = [pc EXCEPT ![t] = "locked"]
  /\ UNCHANGED << propMap, op, ret, calls, lastSet >>

\* The steps of a call once it has been made
Progress(t) ==
  \/ Acquire(t) /\ UNCHANGED << seqVars, navVars, actorVars >>
  \/ Get(t) /\ UNCHANGED << seqVars, navVars, actorVars >>
  \/ GetOptional(t) /\ UNCHANGED << seqVars, navVars, actorVars >>
  \/ ListKeysRecursive(t) /\ UNCHANGED << seqVars, navVars, actorVars >>
  \/ Set(t) /\ UNCHANGED << seqVars, navVars, actorVars >>
  \/ SetValue(t) /\ UNCHANGED << seqVars, navVars, actorVars >>
  \/ Undefine(t) /\ UNCHANGED << seqVars, navVars, actorVars >>
  \/ SetRecord(t) /\ UNCHANGED << seqVars, navVars, actorVars >>
  \/ Unlock(t) /\ UNCHANGED << seqVars, navVars, actorVars >>
  \/ GetThrow(t) /\ UNCHANGED << seqVars, navVars, actorVars >>
  \/ GetReturn(t) /\ UNCHANGED << seqVars, navVars, actorVars >>
  \/ ListKeys(t) /\ UNCHANGED << seqVars, navVars, actorVars >>
  \/ Return(t) /\ UNCHANGED << seqVars, navVars, actorVars >>

NextFair ==
  \E t \in Threads :
    \/ Enter(t) /\ UNCHANGED << seqVars, navVars, actorVars >>
    \/ Progress(t)

\* Every thread that can take a step of its call eventually takes one (the
\* threads are operating-system threads, each scheduled while runnable)
SpecFair ==
  /\ Init
  /\ [][NextFair]_vars
  /\ \A t \in Threads : WF_vars(Progress(t))

(***************************************************************************)
(* mxasync::Actor: a boost::thread member, started on ThreadProc, which    *)
(* calls the virtual run()                                                 *)
(***************************************************************************)
MaxStarts == 3
MaxActorCalls == 6

\* (variant: isRunning tells whether run() is still executing)
Actor_isRunning_inRun == thread.joinable /\ thread.run = "running"

\* Actor::isRunning()
Actor_isRunning == thread.joinable

\* Actor::start(): thread = boost::thread(ThreadProc(*this)).  A thread that
\* the member stood for is let go of (boost::thread's move assignment
\* detaches it) and goes on running.
Start ==
  /\ caller.pc = "idle"
  /\ starts < MaxStarts
  /\ starts' = starts + 1
  /\ detached' = IF thread.joinable /\ thread.run = "running"
                 THEN detached + 1 ELSE detached
  /\ thread' = [joinable |-> TRUE, run |-> "running"]
  /\ caller' = [caller EXCEPT !.op = "start", !.val = FALSE]
  /\ live' = TRUE
  /\ UNCHANGED << treeVars, seqVars, navVars >>

\* start() on a joinable member, in a build of boost::thread whose move
\* assignment calls std::terminate() if the target is joinable
StartTerminates ==
  /\ caller.pc = "idle"
  /\ starts < MaxStarts
  /\ thread.joinable
  /\ starts' = starts + 1
  /\ caller' = [caller EXCEPT !.pc = "terminated", !.op = "start", !.val = FALSE]
  /\ UNCHANGED << thread, detached, live >>
  /\ UNCHANGED << treeVars, seqVars, navVars >>

\* ThreadProc::operator(): owner.run() returns
RunReturns ==
  /\ caller.pc # "terminated"
  /\ thread.run = "running"
  /\ thread' = [thread EXCEPT !.run = "returned"]
  /\ UNCHANGED << detached, caller, starts, live >>
  /\ UNCHANGED << treeVars, seqVars, navVars >>

\* run() returns in a thread the member no longer stands for
DetachedReturns ==
  /\ caller.pc # "terminated"
  /\ detached > 0
  /\ detached' = detached - 1
  /\ UNCHANGED << thread, caller, starts, live >>
  /\ UNCHANGED << treeVars, seqVars, navVars >>

\* Actor::join(): if (!thread.joinable()) return false; else thread.join()
JoinCall ==
  /\ caller.pc = "idle"
  /\ caller.calls < MaxActorCalls
  /\ caller' = IF ~thread.joinable
               THEN [caller EXCEPT !.op = "join", !.val = FALSE, !.calls = @ + 1]
               ELSE [caller EXCEPT !.pc = "joining", !.op = "join", !.val = FALSE,
                                   !.calls = @ + 1]
  /\ UNCHANGED << thread, detached, starts, live >>
  /\ UNCHANGED << treeVars, seqVars, navVars >>

\* thread.join() returns once the thread has finished; the member is then
\* not joinable; return true
JoinReturn ==
  /\ caller.pc = "joining"
  /\ thread.run = "returned"
  /\ thread' = [joinable |-> FALSE, run |-> "none"]
  /\ caller' = [caller EXCEPT !.pc = "idle", !.val = TRUE]
  /\ live' = FALSE
  /\ UNCHANGED << detached, starts >>
  /\ UNCHANGED << treeVars, seqVars, navVars >>

\* The caller asks isRunning()
IsRunning ==
  /\ caller.pc = "idle"
  /\ caller.calls < MaxActorCalls
  /\ caller' = [caller EXCEPT !.op = "isRunning", !.val = Actor_isRunning,
                              !.calls = @ + 1]
  /\ UNCHANGED << thread, detached, starts, live >>
  /\ UNCHANGED << treeVars, seqVars, navVars >>

NextActor ==
  \/ Start \/ StartTerminates \/ RunReturns \/ DetachedReturns
  \/ JoinCall \/ JoinReturn \/ IsRunning

SpecActor == Init /\ [][NextActor]_vars

(***************************************************************************)
(* Properties                                                              *)
(***************************************************************************)

\* C1: every operation of the view API that reads or modifies the table
\* (everything but PTree::clear) holds the mutex for the whole of its table
\* access, so at most one thread is inside the table at any time.
ViewApiOps == LockingOps \cup {"getRecord"}

C1_MutualExclusion ==
  \A t \in Threads :
    (InTable(t) /\ op[t].name \in ViewApiOps) =>
      \A u \in Threads \ {t} : ~(InTable(u) /\ op[u].name \in ViewApiOps)

\* C2: a set / setValue whose codec fails to encode leaves the target record
\* defined, with the placeholder "<invalid>" as its value, and so listed by
\* listKeysRecursive(withUndefined = false) on the root view.
C2_EncodeFailureDefined ==
  \A t \in Threads :
    (/\ pc[t] = "done"
     /\ op[t].name \in {"set", "setValue"}
     /\ ~put_value(op[t].data).has) =>
      /\ FullPath(t) \in DOMAIN propMap
      /\ propMap[FullPath(t)].defined
      /\ propMap[FullPath(t)].value = Invalid
      /\ FullPath(t) \in Elems(listKeysRecursive(propMap, EmptyStr, FALSE))

\* The records of the subtree of the view at selfPath: the record at selfPath
\* and those whose path begins with selfPath + "."; every record for the root.
SubtreeKeys(pm, selfPath, withUndefined) ==
  { k \in DOMAIN pm :
      /\ withUndefined \/ pm[k].defined
      /\ \/ selfPath = EmptyStr
         \/ k = selfPath
         \/ StartsWith(k, selfPath \o <<Dot>>) }

RelativePath(k, selfPath) ==
  IF selfPath = EmptyStr THEN k
  ELSE IF k = selfPath THEN EmptyStr
  ELSE SubSeq(k, Len(selfPath) + 2, Len(k))

\* C3: listKeysRecursive returns exactly one entry per record of the view's
\* subtree (the path relative to the view), and no entry for any other record.
C3_SubtreeScoping ==
  \A t \in Threads :
    (pc[t] = "done" /\ op[t].name = "listKeysRecursive") =>
      LET sub == SubtreeKeys(propMap, op[t].self.selfPath, op[t].wu)
      IN  /\ Len(ret[t].keys) = Cardinality(sub)
          /\ Elems(ret[t].keys) = { RelativePath(k, op[t].self.selfPath) : k \in sub }

NoDuplicates(seq) ==
  \A j, k \in 1..Len(seq) : j # k => seq[j] # seq[k]

\* C4: listKeys returns each immediate child name exactly once: its result
\* has no duplicates.
C4_ListKeysUnique ==
  \A t \in Threads :
    (pc[t] = "returned" /\ op[t].name = "listKeys") => NoDuplicates(ret[t].keys)

Ascending(seq) ==
  \A j \in 1..(Len(seq) - 1) : seq[j] = seq[j+1] \/ StrLess(seq[j], seq[j+1])

\* C5: the sequences returned by listKeysRecursive and by listKeys are in
\* ascending byte-lexicographic order.
C5_EnumerationAscending ==
  \A t \in Threads :
    /\ (pc[t] = "done" /\ op[t].name = "listKeysRecursive") => Ascending(ret[t].keys)
    /\ (pc[t] = "returned" /\ op[t].name = "listKeys") => Ascending(ret[t].keys)

\* C6: the error of the no-default get carries the table key that was read,
\* joinPaths(selfPath, path).
C6_ErrorCarriesFullPath ==
  \A t \in Threads :
    pc[t] = "thrown" => ret[t].propertyName = FullPath(t)

\* A read of the table by thread t takes effect in this step
ReadStep(t) ==
  \/ pc[t] = "locked" /\ op[t].name \in ReadOps /\ pc'[t] = "done"
  \/ pc[t] = "unlocked" /\ op[t].name = "getRecord" /\ pc'[t] = "idle"

\* C7: a read (get with default, getOptional, no-default get, getValue,
\* ConstRef::getRecord) of a path that has no record adds exactly one record,
\* at the full path and undefined, and changes no other record; afterwards
\* listKeysRecursive on the root view lists the path with withUndefined and
\* not without.
C7_LazyMaterialization ==
  [][ \A t \in Threads :
        (ReadStep(t) /\ FullPath(t) \notin DOMAIN propMap) =>
          /\ DOMAIN propMap' = DOMAIN propMap \cup {FullPath(t)}
          /\ ~propMap'[FullPath(t)].defined
          /\ \A k \in DOMAIN propMap : propMap'[k] = propMap[k]
          /\ FullPath(t) \in Elems(listKeysRecursive(propMap', EmptyStr, TRUE))
          /\ FullPath(t) \notin Elems(listKeysRecursive(propMap', EmptyStr, FALSE))
    ]_vars

\* The first call of a run is a read that has materialized its record
C7_Witness ==
  \E t \in Threads :
    /\ calls = 1
    /\ pc[t] = "done"
    /\ op[t].name \in ReadOps
    /\ DOMAIN propMap = {FullPath(t)}
    /\ ~propMap[FullPath(t)].defined

\* The codec encodes v and decodes its own encoding back to v
RoundTrips(v) ==
  /\ put_value(v).has
  /\ get_value(put_value(v).val) = Some(v)

\* The optional and the flag the no-default get has read under the lock are
\* the ones it judges after the lock is released
ReadCarried ==
  \A t \in Threads :
    (/\ op[t].name = "getNoDefault"
     /\ pc[t] \in {"done", "after"}
     /\ pc'[t] \in {"after", "thrown", "returned"}) =>
      /\ ret'[t].opt = ret[t].opt
      /\ ret'[t].isDefined = ret[t].isDefined

\* What the reads hold while they own the lock, given that the last write to
\* the full path was a set / setValue of a value that round-trips
ReadsLastSet ==
  \A t \in Threads :
    (/\ pc[t] = "done"
     /\ FullPath(t) \in DOMAIN lastSet
     /\ RoundTrips(lastSet[FullPath(t)])) =>
      /\ op[t].name \in {"get", "getValueOr"} => ret[t].val = lastSet[FullPath(t)]
      /\ op[t].name \in {"getOptional", "getValue", "getNoDefault"} =>
           ret[t].opt = Some(lastSet[FullPath(t)])

NoDefaultGetOutcome ==
  \A t \in Threads :
    op[t].name = "getNoDefault" =>
      /\ pc[t] = "thrown" => ~ret[t].opt.has
      /\ pc[t] = "returned" => ret[t].opt.has /\ ret[t].val = ret[t].opt.val

\* C8: after a set<T>(p, v) whose value round-trips through the codec, the
\* reads get<T>(p), get<T>(p, d) and getOptional<T>(p) of the same full path
\* return v, as long as no set, setValue, setRecord, undefine on that path and
\* no clear has taken effect in between.
C8_RoundTrip ==
  /\ [](ReadsLastSet /\ NoDefaultGetOutcome)
  /\ [][ReadCarried]_vars

\* A no-default get has returned the value that was set
C8_Witness ==
  \E t \in Threads :
    /\ pc[t] = "returned"
    /\ op[t].name = "getNoDefault"
    /\ ret[t].kind = "value"
    /\ ret[t].val = 12

\* What the no-default get holds while it owns the lock: the flag and the
\* value of the record at its full path, from the one read
ReadsRecord ==
  \A t \in Threads :
    (pc[t] = "done" /\ op[t].name = "getNoDefault") =>
      /\ FullPath(t) \in DOMAIN propMap
      /\ ret[t].isDefined = propMap[FullPath(t)].defined
      /\ ret[t].opt = IF propMap[FullPath(t)].defined
                      THEN get_value(propMap[FullPath(t)].value)
                      ELSE None

ErrorReason ==
  \A t \in Threads :
    op[t].name = "getNoDefault" =>
      /\ pc[t] = "returned" =>
           ret[t].isDefined /\ ret[t].opt.has /\ ret[t].val = ret[t].opt.val
      /\ pc[t] = "thrown" =>
           /\ ~ret[t].opt.has
           /\ ret[t].msg = "Undefined property: " <=> ~ret[t].isDefined
           /\ ret[t].msg = "Bad format " <=> ret[t].isDefined

\* C9: the no-default get returns the decoded value when the record is
\* defined and decodes; otherwise it fails with 'undefined' exactly when the
\* record was not defined at the moment of the read, and with 'bad format'
\* exactly when it was defined and its string does not decode; flag and value
\* come from the same locked read.
C9_ErrorDistinction ==
  /\ [](ReadsRecord /\ ErrorReason)
  /\ [][ReadCarried]_vars

\* A no-default get has failed with 'bad format'
C9_Witness ==
  \E t \in Threads :
    /\ pc[t] = "thrown"
    /\ op[t].name = "getNoDefault"
    /\ ret[t].msg = "Bad format "
    /\ ret[t].isDefined

\* A write by thread t to the record at full path f takes effect in this step
WriteStepOn(t, f) ==
  \/ pc[t] = "locked" /\ op[t].name \in WriteOps /\ FullPath(t) = f /\ pc'[t] = "done"
  \/ pc[t] = "unlocked" /\ op[t].name = "clear" /\ pc'[t] = "idle"

UndefineStep(t) ==
  pc[t] = "locked" /\ op[t].name = "undefine" /\ pc'[t] = "done"

\* C10: undefine(p) on an existing record leaves the record in the table,
\* not defined, with the string value and the metadata it had; the record is
\* listed with withUndefined and not without; it stays so until the next
\* write to that path, and getOptional(p) meanwhile returns empty and reports
\* defined = false.
C10_UndefineIsSoft ==
  /\ [][ \A t \in Threads :
           (UndefineStep(t) /\ FullPath(t) \in DOMAIN propMap) =>
             /\ DOMAIN propMap' = DOMAIN propMap
             /\ ~propMap'[FullPath(t)].defined
             /\ propMap'[FullPath(t)].value = propMap[FullPath(t)].value
             /\ propMap'[FullPath(t)].pathData = propMap[FullPath(t)].pathData
             /\ FullPath(t) \in Elems(listKeysRecursive(propMap', EmptyStr, TRUE))
             /\ FullPath(t) \notin Elems(listKeysRecursive(propMap', EmptyStr, FALSE))
      ]_vars
  /\ [][ \A f \in DOMAIN propMap :
           (f \notin DOMAIN propMap' \/ propMap'[f] # propMap[f]) =>
             \E t \in Threads : WriteStepOn(t, f)
      ]_vars
  /\ [](\A t \in Threads :
          (/\ pc[t] = "done"
           /\ op[t].name = "getOptional"
           /\ ~propMap[FullPath(t)].defined) =>
            ret[t].opt = None /\ ~ret[t].isDefined)

\* getOptional reads a record that was set to 12 and then undefined
C10_Witness ==
  \E t \in Threads :
    /\ pc[t] = "done"
    /\ op[t].name = "getOptional"
    /\ propMap[FullPath(t)].value = Decimal(12)
    /\ ~propMap[FullPath(t)].defined
    /\ ret[t].opt = None

\* What get<T>(p, default) is to return for the record r at its full path
DefaultFallback(r) ==
  IF r.defined /\ get_value(r.value).has
  THEN get_value(r.value).val
  ELSE DefaultVal

\* C11: get<T>(p, default) raises no error in any state of the store; it
\* returns default when the record at p was never set (it is the record just
\* materialized), when it was set and then undefined, and when its string
\* does not decode; otherwise it returns the decoded stored value.
C11_DefaultFallback ==
  \A t \in Threads :
    op[t].name \in {"get", "getValueOr"} =>
      /\ pc[t] \in {"locked", "done"}
      /\ pc[t] = "done" =>
           /\ ret[t].kind = "value"
           /\ FullPath(t) \in DOMAIN propMap
           /\ ret[t].val = DefaultFallback(propMap[FullPath(t)])
           /\ propMap[FullPath(t)] = NewRecord => ret[t].val = DefaultVal
           /\ FullPath(t) \in DOMAIN lastSet => ret[t].val = lastSet[FullPath(t)]

\* get with a default has returned the default for a record that was set to
\* 12 and then undefined
C11_Witness ==
  \E t \in Threads :
    /\ pc[t] = "done"
    /\ op[t].name = "get"
    /\ propMap[FullPath(t)].value = Decimal(12)
    /\ ~propMap[FullPath(t)].defined
    /\ ret[t].val = DefaultVal

\* A step in which thread t's call takes effect on the table
TakesEffect(t) == mutex = t /\ pc[t] = "locked" /\ pc'[t] = "done"

\* C12: each locking call takes effect at one instant, in the one step it
\* makes on the table while it owns the mutex, and nothing else changes the
\* table; a sequence of calls is not atomic: between two calls of a thread
\* the mutex is free and another thread's set or undefine can take effect
\* (two threads each doing v = get(p, 0); set(p, v + 1) on a fresh store can
\* leave 1; a key listed without undefined records can be undefined when the
\* same thread reads it).
C12_CallsAtomicSequencesNot ==
  /\ [][ propMap' # propMap => \E t \in Threads : TakesEffect(t) ]_vars
  /\ [](\A t \in Threads : pc[t] \in {"locked", "done"} => mutex = t)
  /\ [](\A t \in Threads :
          local[t].prog \in {"incrRead", "listed"} => pc[t] = "idle" /\ mutex # t)
  /\ [](\A t \in Threads :
          (pc[t] = "done" /\ local[t].prog = "incrSet") =>
            propMap[PathB].value = Decimal(local[t].v + 1))

\* Seven calls in all.  Both threads have completed one increment (two calls
\* each) and the store holds 1; then thread t listed the key, the other
\* thread undefined it, and t's read of the key it listed finds it undefined
C12_Witness ==
  /\ calls = 7
  /\ \A t \in Threads : local[t].incrs = 1
  /\ propMap[PathB].value = Decimal(1)
  /\ \E t \in Threads :
       /\ local[t].prog = "readListed"
       /\ local[t].keys = << PathB >>
       /\ pc[t] = "done"
       /\ op[t].path = PathB
       /\ ret[t].opt = None
       /\ ~ret[t].isDefined

\* join(a, b) as the specification defines it
Join(a, b) ==
  IF a = EmptyStr THEN b ELSE IF b = EmptyStr THEN a ELSE a \o << Dot >> \o b

\* The full path a call addresses: join(selfPath, path) of its view and argument
Address(t) == Join(op[t].self.selfPath, op[t].path)

\* What a read through any view returns, from the record at its address
ReadsAddressed ==
  \A t \in Threads :
    (pc[t] = "done" /\ op[t].name \in {"get", "getOptional"}) =>
      /\ Address(t) \in DOMAIN propMap
      /\ op[t].name = "get" =>
           ret[t].val = DefaultFallback(propMap[Address(t)])
      /\ op[t].name = "getOptional" =>
           /\ ret[t].isDefined = propMap[Address(t)].defined
           /\ ret[t].opt = IF propMap[Address(t)].defined
                           THEN get_value(propMap[Address(t)].value)
                           ELSE None
      /\ Address(t) \in DOMAIN lastSet =>
           /\ op[t].name = "get" => ret[t].val = lastSet[Address(t)]
           /\ op[t].name = "getOptional" => ret[t].opt = Some(lastSet[Address(t)])

\* C13: a read through any view returns the state of the record at
\* join(selfPath, path) as the latest completed write to that full path left
\* it, whichever view (whatever its selfId and derivation) made the write or
\* makes the read: the record at a full path changes only in a write step
\* addressed to that full path, and a read is computed from that record.
C13_AddressedByFullPath ==
  /\ []ReadsAddressed
  /\ [][ \A f \in DOMAIN propMap :
           (f \notin DOMAIN propMap' \/ propMap'[f] # propMap[f]) =>
             \E t \in Threads :
               /\ pc[t] = "locked" /\ pc'[t] = "done"
               /\ op[t].name \in WriteOps
               /\ Address(t) = f
      ]_vars
  /\ [](\A f \in DOMAIN writer : f \in DOMAIN propMap)

\* A get of "b" through a view of the subtree "a" returns the 12 that was
\* set as "a.b" through the root view, which has another id
C13_Witness ==
  \E t \in Threads :
    /\ pc[t] = "done"
    /\ op[t].name = "get"
    /\ op[t].self.selfPath = PathA
    /\ op[t].path = PathB
    /\ Address(t) \in DOMAIN writer
    /\ writer[Address(t)].selfPath = EmptyStr
    /\ writer[Address(t)].selfId # op[t].self.selfId
    /\ ret[t].val = 12

\* Thread t's clear() takes effect in this step
ClearStep(t) == pc[t] = "unlocked" /\ op[t].name = "clear" /\ pc'[t] = "idle"

\* The full paths the callers' views can address
AddressablePaths ==
  { joinPaths(v.selfPath, p) : v \in Views, p \in RelPaths }

\* C14: immediately after a clear() that no operation runs concurrently
\* with, the table holds no record, defined or not: listKeysRecursive with
\* withUndefined on the root view returns nothing and every path reads as
\* never set; the views held before the clear go on addressing
\* join(selfPath, path).
C14_ClearEmptiesTable ==
  /\ [][ \A t \in Threads :
           (ClearStep(t) /\ \A u \in Threads \ {t} : ~InTable(u)) =>
             /\ DOMAIN propMap' = {}
             /\ listKeysRecursive(propMap', EmptyStr, TRUE) = << >>
             /\ \A f \in AddressablePaths :
                  LET pm == PTree_getRecord(propMap', f)
                  IN  /\ pm[f] = NewRecord
                      /\ Record_get_as(pm[f]) = [opt |-> None, isDefined |-> FALSE]
      ]_vars
  /\ [](\A t \in Threads :
          (pc[t] = "done" /\ op[t].name \in ReadOps \cup WriteOps) =>
            /\ op[t].self \in Views
            /\ Join(op[t].self.selfPath, op[t].path) \in DOMAIN propMap)

\* The table is empty although another thread still holds the listing
\* <<"b">> it made of it: the record was there and clear() has removed it
C14_Witness ==
  /\ propMap = EmptyMap
  /\ \A t \in Threads : ~InTable(t)
  /\ \E u \in Threads :
       /\ pc[u] = "returned"
       /\ op[u].name = "listKeys"
       /\ ret[u].keys = << PathB >>

\* A navigation call has just been made on cur
Navigated == nav.name # "none"

\* selfPath and selfId of the view each navigation call returns
NavResult ==
  /\ nav.name \in {"getSubtree", "Ref::getSubtree"} =>
       /\ nav.result.selfPath = Join(nav.from.selfPath, nav.path)
       /\ nav.result.selfId = nav.from.selfId
  /\ nav.name \in {"reIDfy", "Ref::reIDfy"} =>
       /\ nav.result.selfPath = nav.from.selfPath
       /\ nav.result.selfId = Join(nav.from.selfId, nav.subId)
  /\ nav.name \in {"getSubtreeForSubId", "Ref::getSubtreeForSubId"} =>
       /\ nav.result.selfPath = Join(nav.from.selfPath, nav.path)
       /\ nav.result.selfId = Join(nav.from.selfId, nav.subId)
  /\ nav.name = "root" =>
       /\ nav.result.selfPath = EmptyStr
       /\ nav.result.selfId = nav.subId

\* C15: getSubtree(rel) returns a view with selfPath join(selfPath, rel) and
\* the same selfId; reIDfy(sub) one with the same selfPath and selfId
\* join(selfId, sub); getSubtreeForSubId(rel, sub) does both; root(id) has
\* selfPath "" and selfId id.  None of them changes the table (no record is
\* materialized) or the view it was called on, for ConstRef and for Ref.
C15_NavigationIsPure ==
  /\ [](NavResult /\ (Navigated => nav.from = cur))
  /\ [][ (nav' # nav /\ Navigated') =>
           propMap' = propMap /\ cur' = cur /\ nav'.from = cur ]_vars

\* getSubtreeForSubId("b", "j") has been called on a view of the subtree "a"
\* while the table holds a record
C15_Witness ==
  /\ nav.name \in {"getSubtreeForSubId", "Ref::getSubtreeForSubId"}
  /\ nav.from.selfPath = PathA
  /\ nav.path = PathB
  /\ nav.subId = OtherId
  /\ nav.result = [selfPath |-> PathADotB, selfId |-> << Ascii.i, Dot, Ascii.j >>]
  /\ DOMAIN propMap # {}

\* s is empty or a dot-joined sequence of non-empty segments
WellFormed(s) ==
  \/ s = EmptyStr
  \/ /\ s[1] # Dot
     /\ s[Len(s)] # Dot
     /\ \A k \in 1..(Len(s) - 1) : ~(s[k] = Dot /\ s[k + 1] = Dot)

\* join(a, "") = a, join("", b) = b, join(a, b) = a + "." + b otherwise
JoinLaws(a) ==
  \A b \in SubtreePaths :
    /\ b = EmptyStr => joinPaths(a, b) = a
    /\ a = EmptyStr => joinPaths(a, b) = b
    /\ (a # EmptyStr /\ b # EmptyStr) => joinPaths(a, b) = a \o << Dot >> \o b

\* C16: every view reached from root(id) by getSubtree, getSubtreeForSubId
\* and reIDfy calls whose relativePath arguments are empty or dot-joined
\* non-empty segments has a selfPath that is empty or a dot-joined sequence
\* of non-empty segments (no leading or trailing dot, no empty segment).
C16_SelfPathWellFormed ==
  /\ \A p \in SubtreePaths : WellFormed(p)
  /\ WellFormed(cur.selfPath)
  /\ WellFormed(nav.result.selfPath)
  /\ JoinLaws(cur.selfPath)

\* The callers hold a view of "a.b" and getSubtree("") on it has returned a
\* view of "a.b"
C16_Witness ==
  /\ cur.selfPath = PathADotB
  /\ nav.name \in {"getSubtree", "Ref::getSubtree"}
  /\ nav.path = EmptyStr
  /\ nav.result.selfPath = PathADotB

\* Thread t's write takes effect in this step
WriteStep(t) == pc[t] = "locked" /\ op[t].name \in WriteOps /\ pc'[t] = "done"

\* C17: set, setValue, undefine and setRecord change or create only the
\* record at the joined full path; every other record (at an ancestor path,
\* at a descendant path, anywhere) keeps its value, defined flag and
\* metadata and stays enumerated as it was; setRecord(p, r) makes the record
\* at p equal to r, r's defined flag included.
C17_WritesTouchOneRecord ==
  [][ \A t \in Threads :
        WriteStep(t) =>
          /\ DOMAIN propMap' = DOMAIN propMap \cup {Address(t)}
          /\ \A g \in DOMAIN propMap \ {Address(t)} :
               /\ propMap'[g] = propMap[g]
               /\ propMap[g].defined =>
                    g \in Elems(listKeysRecursive(propMap', EmptyStr, FALSE))
          /\ op[t].name = "setRecord" => propMap'[Address(t)] = op[t].rec
          /\ op[t].name = "undefine" => ~propMap'[Address(t)].defined
    ]_vars

\* undefine("a") has taken effect and the defined record at "a.b" is still
\* defined and enumerated
C17_Witness ==
  \E t \in Threads :
    /\ pc[t] = "done"
    /\ op[t].name = "undefine"
    /\ Address(t) = PathA
    /\ PathADotB \in DOMAIN propMap
    /\ propMap[PathADotB].defined
    /\ PathADotB \in Elems(listKeysRecursive(propMap, EmptyStr, FALSE))

\* Thread t's step on the table (under the lock, or a direct getRecord)
TableStep(t) ==
  \/ pc[t] = "locked" /\ pc'[t] = "done"
  \/ pc[t] = "unlocked" /\ op[t].name = "getRecord" /\ pc'[t] = "idle"

\* C18: without clear() the set of keys in the table never shrinks: get,
\* getOptional, set, setValue, undefine and setRecord add at most the one key
\* they address and remove none; listKeysRecursive and listKeys neither add
\* nor remove a key (the enumeration does not materialize the view's own
\* selfPath).
C18_KeySetMonotone ==
  /\ [][ (\A t \in Threads : ~ClearStep(t)) =>
           DOMAIN propMap \subseteq DOMAIN propMap' ]_vars
  /\ [][ \A t \in Threads :
           TableStep(t) =>
             IF op[t].name \in ListOps
             THEN DOMAIN propMap' = DOMAIN propMap
             ELSE DOMAIN propMap' = DOMAIN propMap \cup {Address(t)}
      ]_vars
  /\ [][ DOMAIN propMap' # DOMAIN propMap =>
           \E t \in Threads : TableStep(t) \/ ClearStep(t) ]_vars

\* An enumeration through the view of "a" has run on a table that holds a
\* record below "a" and none at "a"
C18_Witness ==
  \E t \in Threads :
    /\ pc[t] = "done"
    /\ op[t].name \in ListOps
    /\ op[t].self.selfPath = PathA
    /\ PathA \notin DOMAIN propMap
    /\ PathADotB \in DOMAIN propMap
    /\ ret[t].keys = << PathB >>

\* Who owns the mutex, by where each thread is in its call
LockDiscipline ==
  /\ \A t \in Threads : pc[t] \in {"locked", "done"} <=> mutex = t
  /\ \A t \in Threads :
       pc[t] \in {"idle", "waiting", "after", "returned", "thrown"} => mutex # t
  /\ (\A t \in Threads : pc[t] = "idle") => mutex = NoThread

\* C19: no operation of a view tries to lock the mutex while its thread owns
\* it (a thread waiting for the mutex never owns it); every operation has
\* released the mutex when it returns or throws (the no-default get raises
\* its error after the release); hence, under fair scheduling, every call of
\* each thread eventually completes, and the mutex is free whenever no call
\* is in progress.
C19_DeadlockFreedom ==
  /\ []LockDiscipline
  /\ \A t \in Threads : (pc[t] # "idle") ~> (pc[t] = "idle")

\* A thread waits for the mutex while the other one, in a no-default get
\* that is going to throw, still owns it
C19_Witness ==
  \E t, u \in Threads :
    /\ pc[t] = "waiting"
    /\ pc[u] = "done"
    /\ mutex = u
    /\ op[u].name = "getNoDefault"
    /\ ~ret[u].opt.has

\* The caller calls join() in this step
JoinCalled ==
  caller.pc = "idle" /\ caller'.op = "join" /\ caller'.calls = caller.calls + 1

\* The caller's join() returns true in this step
JoinedTrue == caller.pc = "joining" /\ caller'.pc = "idle"

\* C20: join() returns false without blocking when the actor was never
\* started or has already been joined; on a started, not yet joined actor it
\* returns true only after run() has returned, and afterwards isRunning() is
\* false and a second join() returns false; isRunning() is true from start()
\* until that successful join(), also after run() has finished.
C20_ActorLifecycle ==
  /\ [][ JoinCalled =>
           IF live
           THEN caller'.pc = "joining"
           ELSE caller'.pc = "idle" /\ caller'.val = FALSE /\ thread' = thread
      ]_vars
  /\ [][ JoinedTrue =>
           /\ live
           /\ thread.run = "returned"
           /\ caller'.val = TRUE
           /\ ~live'
           /\ ~thread'.joinable
      ]_vars
  /\ [](caller.pc = "joining" => live /\ caller.op = "join")
  /\ [](Actor_isRunning <=> live)
  /\ [](caller.op = "isRunning" => caller.val = live)

\* The actor was started once and joined, and a second join() has returned
\* false
C20_Witness ==
  /\ starts = 1
  /\ ~live
  /\ caller.pc = "idle"
  /\ caller.op = "join"
  /\ caller.val = FALSE
  /\ caller.calls >= 2

====
